---- MODULE Spec2Model ----
(***************************************************************************)
(* Model of the rust-api user service: the in-memory Storage               *)
(* (src/src/models.rs) and the request handlers (src/src/handlers.rs).     *)
(* Strings are sequences of one-character strings so that trim(),          *)
(* to_lowercase() and contains('@') are computed, not assumed.             *)
(***************************************************************************)
EXTENDS Integers, Sequences, FiniteSets, TLC

VARIABLES
    users,   \* Storage.users: the HashMap from id to record
    clock,   \* the wall clock Utc::now() reads
    pc,      \* per in-flight request: where its handler stands
    req,     \* per in-flight request: the handler called and its arguments
    lock,    \* AppState.storage's RwLock: who holds it for writing, for reading
    rival,   \* history: per in-flight create, the id a concurrent create of
             \* the same email has inserted meanwhile (0: none)
    queue,   \* the RwLock's waiters, longest-waiting first
    health   \* the body of the latest health_check response, if any

vars == <<users, clock, pc, req, lock, rival, queue, health>>
tasks == <<pc, req, lock, rival, queue, health>>

(***************************************************************************)
(* Bounds                                                                  *)
(***************************************************************************)
MaxUuid == 2
MaxTime == 1
NumTasks == 2

Uuids == 1..MaxUuid
Times == 0..MaxTime
Tasks == 1..NumTasks

(***************************************************************************)
(* Strings                                                                 *)
(***************************************************************************)
WhiteSpace == {" "}

RECURSIVE trim_start(_)
trim_start(s) ==
    IF s = << >> THEN << >>
    ELSE IF Head(s) \in WhiteSpace THEN trim_start(Tail(s))
    ELSE s

RECURSIVE trim_end(_)
trim_end(s) ==
    IF s = << >> THEN << >>
    ELSE IF s[Len(s)] \in WhiteSpace THEN trim_end(SubSeq(s, 1, Len(s) - 1))
    ELSE s

trim(s) == trim_end(trim_start(s))

char_to_lowercase(c) ==
    CASE c = "A" -> "a"
      [] c = "B" -> "b"
      [] c = "N" -> "n"
      [] OTHER -> c

to_lowercase(s) == [i \in 1..Len(s) |-> char_to_lowercase(s[i])]

contains(s, c) == \E i \in 1..Len(s) : s[i] = c

is_empty(s) == Len(s) = 0

(***************************************************************************)
(* Request payloads                                                        *)
(***************************************************************************)
NameInputs ==
    { << >>, <<" ">>, <<"n">>, <<" ", "N", " ">> }

EmailInputs ==
    { << >>, <<" ">>, <<"a">>,
      <<"a", "@">>, <<"A", "@">>, <<" ", "a", "@", " ">>, <<"b", "@">> }

None == [some |-> FALSE, val |-> << >>]
Some(x) == [some |-> TRUE, val |-> x]
Option(S) == {None} \cup {Some(x) : x \in S}

CreateUserRequest == [name : NameInputs, email : EmailInputs]
UpdateUserRequest == [name : Option(NameInputs), email : Option(EmailInputs)]

(***************************************************************************)
(* Records and Storage                                                     *)
(***************************************************************************)
User(id, name, email, created_at, updated_at) ==
    [id |-> id, name |-> name, email |-> email,
     created_at |-> created_at, updated_at |-> updated_at]

\* Placeholder where a response carries no record (ids are 1..MaxUuid).
NoUser == User(0, << >>, << >>, 0, 0)

Storage_new == [i \in {} |-> NoUser]

Storage_get_all(st) == {st[i] : i \in DOMAIN st}

Storage_contains_key(st, id) == id \in DOMAIN st

Storage_get(st, id) == IF id \in DOMAIN st THEN Some(st[id]) ELSE None

\* Variant: inserts over an existing record and always reports an insertion.
Storage_create_upsert(st, user) ==
    [ok |-> TRUE,
     users |-> [i \in DOMAIN st \cup {user.id} |-> IF i = user.id THEN user ELSE st[i]]]

\* Variant: inserts first and reports a collision afterwards, overwriting.
Storage_create_overwrite(st, user) ==
    [ok |-> ~Storage_contains_key(st, user.id),
     users |-> [i \in DOMAIN st \cup {user.id} |->
                   IF i = user.id THEN user ELSE st[i]]]

Storage_create(st, user) ==
    IF Storage_contains_key(st, user.id)
    THEN [ok |-> FALSE, users |-> st]
    ELSE [ok |-> TRUE,
          users |-> [i \in DOMAIN st \cup {user.id} |->
                        IF i = user.id THEN user ELSE st[i]]]

\* Variant: stamps both timestamps.
updater_touch_created(user, payload, now) ==
    [user EXCEPT
        !.name = IF payload.name.some THEN trim(payload.name.val) ELSE @,
        !.email = IF payload.email.some THEN to_lowercase(trim(payload.email.val)) ELSE @,
        !.created_at = now,
        !.updated_at = now]

\* Variant: resets updated_at to the epoch.
updater_epoch(user, payload, now) ==
    [user EXCEPT
        !.name = IF payload.name.some THEN trim(payload.name.val) ELSE @,
        !.email = IF payload.email.some THEN to_lowercase(trim(payload.email.val)) ELSE @,
        !.updated_at = 0]

\* Variant: stores a supplied email as submitted.
updater_raw_email(user, payload, now) ==
    [user EXCEPT
        !.name = IF payload.name.some THEN trim(payload.name.val) ELSE @,
        !.email = IF payload.email.some THEN payload.email.val ELSE @,
        !.updated_at = now]

\* Variant: refreshes updated_at only when a field is supplied.
updater_lazy_timestamp(user, payload, now) ==
    [user EXCEPT
        !.name = IF payload.name.some THEN trim(payload.name.val) ELSE @,
        !.email = IF payload.email.some
                  THEN to_lowercase(trim(payload.email.val)) ELSE @,
        !.updated_at = IF payload.name.some \/ payload.email.some
                       THEN now ELSE @]

\* The closure update_user passes to Storage::update (handlers.rs 194-202).
updater(user, payload, now) ==
    [user EXCEPT
        !.name = IF payload.name.some THEN trim(payload.name.val) ELSE @,
        !.email = IF payload.email.some
                  THEN to_lowercase(trim(payload.email.val)) ELSE @,
        !.updated_at = now]

Storage_update(st, id, payload, now) ==
    IF id \in DOMAIN st
    THEN [ok |-> TRUE, users |-> [st EXCEPT ![id] = updater(st[id], payload, now)]]
    ELSE [ok |-> FALSE, users |-> st]

\* Variant: looks the record up and reports it, without removing it.
Storage_delete_keep(st, id) == [ok |-> id \in DOMAIN st, users |-> st]

Storage_delete(st, id) ==
    [ok |-> id \in DOMAIN st,
     users |-> [i \in DOMAIN st \ {id} |-> st[i]]]

Storage_email_exists(st, email) == \E i \in DOMAIN st : st[i].email = email

(***************************************************************************)
(* Handler outcomes: the response kind, its message, the returned record   *)
(* and the storage the handler leaves behind.                              *)
(***************************************************************************)
ErrorKinds == {"NotFound", "BadRequest", "Internal", "Conflict"}
SuccessKinds == {"Ok", "Created", "NoContent"}

\* http::StatusCode values, by name.
StatusCodes == {"NOT_FOUND", "BAD_REQUEST", "INTERNAL_SERVER_ERROR", "CONFLICT"}

\* Variant: a conflict is reported as a bad request.
status_code_conflict_as_bad_request(err) ==
    CASE err.kind = "NotFound" -> "NOT_FOUND"
      [] err.kind = "BadRequest" -> "BAD_REQUEST"
      [] err.kind = "Internal" -> "INTERNAL_SERVER_ERROR"
      [] err.kind = "Conflict" -> "BAD_REQUEST"

status_code(err) ==
    CASE err.kind = "NotFound" -> "NOT_FOUND"
      [] err.kind = "BadRequest" -> "BAD_REQUEST"
      [] err.kind = "Internal" -> "INTERNAL_SERVER_ERROR"
      [] err.kind = "Conflict" -> "CONFLICT"

message(err) == err.msg

as_u16(status) ==
    CASE status = "NOT_FOUND" -> 404
      [] status = "BAD_REQUEST" -> 400
      [] status = "INTERNAL_SERVER_ERROR" -> 500
      [] status = "CONFLICT" -> 409

\* The response: its status line and its JSON body.
into_response(err) ==
    LET status == status_code(err)
    IN  [status |-> as_u16(status),
         body |-> [error |-> [message |-> message(err), status |-> as_u16(status)]]]

NoHealth == [status |-> "", service |-> "", timestamp |-> 0]

\* Variant: answers with another status word.
health_check_ok(now) ==
    [status |-> "ok", service |-> "rust-api", timestamp |-> now]

health_check(now) ==
    [status |-> "healthy", service |-> "rust-api", timestamp |-> now]

Err(kind, msg, st) ==
    [kind |-> kind, msg |-> msg, user |-> NoUser, list |-> {}, count |-> 0,
     users |-> st]

Ok(kind, user, st) ==
    [kind |-> kind, msg |-> "", user |-> user, list |-> {}, count |-> 0,
     users |-> st]

\* Variant: returns one record at most.
list_users_first(st) ==
    LET all == Storage_get_all(st)
        page == IF all = {} THEN {} ELSE {CHOOSE u \in all : TRUE}
    IN  [kind |-> "Ok", msg |-> "", user |-> NoUser, list |-> page,
         count |-> Cardinality(page), users |-> st]

list_users(st) ==
    LET all == Storage_get_all(st)
    IN  [kind |-> "Ok", msg |-> "", user |-> NoUser, list |-> all,
         count |-> Cardinality(all), users |-> st]

\* Variant: takes the record out of the map instead of copying it.
get_user_take(st, id) ==
    LET user == Storage_get(st, id)
    IN  IF ~user.some
        THEN Err("NotFound", "User not found", st)
        ELSE Ok("Ok", user.val, [i \in DOMAIN st \ {id} |-> st[i]])

get_user(st, id) ==
    LET user == Storage_get(st, id)
    IN  IF ~user.some
        THEN Err("NotFound", "User not found", st)
        ELSE Ok("Ok", user.val, st)

\* Variant: stores the fields as submitted.
new_user_raw(payload, newid, now) ==
    User(newid, payload.name, payload.email, now, now)

\* The record create_user builds (handlers.rs 119-126).
new_user(payload, newid, now) ==
    User(newid, trim(payload.name), to_lowercase(trim(payload.email)), now, now)

\* create_user before it takes the lock: field validation (handlers.rs 94-106).
create_user_validate(st, payload) ==
    IF is_empty(trim(payload.name))
    THEN Err("BadRequest", "Name cannot be empty", st)
    ELSE IF is_empty(trim(payload.email))
    THEN Err("BadRequest", "Email cannot be empty", st)
    ELSE IF ~contains(payload.email, "@")
    THEN Err("BadRequest", "Invalid email format", st)
    ELSE Ok("Ok", NoUser, st)

\* create_user after its uniqueness check: build and store (handlers.rs 118-135).
create_user_insert(st, payload, newid, now) ==
    LET user == new_user(payload, newid, now)
        r == Storage_create(st, user)
    IN  IF ~r.ok
        THEN Err("Internal", "Failed to create user due to ID collision", r.users)
        ELSE Ok("Created", user, r.users)

\* Variant: checks uniqueness before it validates the fields.
create_user_unique_first(st, payload, newid, now) ==
    IF Storage_email_exists(st, payload.email)
    THEN Err("Conflict", "User with email already exists", st)
    ELSE LET v == create_user_validate(st, payload)
         IN  IF v.kind # "Ok" THEN v
             ELSE create_user_insert(st, payload, newid, now)

create_user(st, payload, newid, now) ==
    LET v == create_user_validate(st, payload)
    IN  IF v.kind # "Ok"
        THEN v
        ELSE IF Storage_email_exists(st, payload.email)
        THEN Err("Conflict", "User with email already exists", st)
        ELSE create_user_insert(st, payload, newid, now)

\* storage.get_all().iter().find(|u| u.email == email_lower): the first match
\* in the HashMap's iteration order, which is unspecified, so any match.
find_by_email(st, email_lower) ==
    LET matches == {u \in Storage_get_all(st) : u.email = email_lower}
    IN  IF matches = {} THEN {None} ELSE {Some(u) : u \in matches}

\* Variant: looks the supplied email up as submitted.
FindResults_raw(st, payload) ==
    IF payload.email.some
    THEN find_by_email(st, payload.email.val)
    ELSE {None}

FindResults(st, payload) ==
    IF payload.email.some
    THEN find_by_email(st, to_lowercase(trim(payload.email.val)))
    ELSE {None}

\* update_user after its existence check: validation, Storage::update, re-read.
update_user_body(st, id, payload, found, now) ==
    IF payload.email.some /\ is_empty(trim(payload.email.val))
    THEN Err("BadRequest", "Email cannot be empty", st)
    ELSE IF payload.email.some /\ ~contains(payload.email.val, "@")
    THEN Err("BadRequest", "Invalid email format", st)
    ELSE IF payload.email.some /\ found.some /\ found.val.id # id
    THEN Err("Conflict", "Email is already in use", st)
    ELSE IF payload.name.some /\ is_empty(trim(payload.name.val))
    THEN Err("BadRequest", "Name cannot be empty", st)
    ELSE LET r == Storage_update(st, id, payload, now)
             updated_user == IF r.ok THEN Storage_get(r.users, id) ELSE None
         IN  IF ~updated_user.some
             THEN Err("Internal", "Failed to update user", r.users)
             ELSE Ok("Ok", updated_user.val, r.users)

update_user(st, id, payload, found, now) ==
    IF ~Storage_get(st, id).some
    THEN Err("NotFound", "User not found", st)
    ELSE update_user_body(st, id, payload, found, now)

delete_user(st, id) ==
    LET r == Storage_delete(st, id)
    IN  IF ~r.ok
        THEN Err("NotFound", "User not found", r.users)
        ELSE Ok("NoContent", NoUser, r.users)

(***************************************************************************)
(* Sequential specification: one handler call per step, on the storage and *)
(* the wall clock that Utc::now() reads.                                   *)
(***************************************************************************)
NoReq == [op |-> "none", id |-> 0, payload |-> [name |-> None, email |-> None]]

Request(op, id, payload) == [op |-> op, id |-> id, payload |-> payload]

\* The body of an in-flight request is kept as its JSON fields; a create
\* request carries both of them.
CreateJson(payload) == [name |-> Some(payload.name), email |-> Some(payload.email)]

CreateBody(r) == [name |-> r.payload.name.val, email |-> r.payload.email.val]

\* tokio::sync::RwLock: one writer, or any number of readers.
RwLock_new == [writers |-> {}, readers |-> {}]

Init ==
    /\ users = Storage_new
    /\ clock = 0
    /\ pc = [t \in Tasks |-> "idle"]
    /\ req = [t \in Tasks |-> NoReq]
    /\ lock = RwLock_new
    /\ rival = [t \in Tasks |-> 0]
    /\ queue = << >>
    /\ health = NoHealth

Tick ==
    /\ clock < MaxTime
    /\ clock' = clock + 1
    /\ UNCHANGED <<users, tasks>>

ListUsers ==
    /\ users' = list_users(users).users
    /\ UNCHANGED <<clock, tasks>>

GetUser ==
    \E id \in Uuids :
        /\ users' = get_user(users, id).users
        /\ UNCHANGED <<clock, tasks>>

CreateUser ==
    \E payload \in CreateUserRequest, newid \in Uuids :
        /\ users' = create_user(users, payload, newid, clock).users
        /\ UNCHANGED <<clock, tasks>>

UpdateUser ==
    \E id \in Uuids, payload \in UpdateUserRequest :
        \E found \in FindResults(users, payload) :
            /\ users' = update_user(users, id, payload, found, clock).users
            /\ UNCHANGED <<clock, tasks>>

DeleteUser ==
    \E id \in Uuids :
        /\ users' = delete_user(users, id).users
        /\ UNCHANGED <<clock, tasks>>

Next ==
    \/ Tick
    \/ ListUsers
    \/ GetUser
    \/ CreateUser
    \/ UpdateUser
    \/ DeleteUser

Spec == Init /\ [][Next]_vars

(***************************************************************************)
(* Concurrent specification: each task runs one handler at a time, step by *)
(* step, taking the RwLock where the handler awaits it and giving it back  *)
(* when the handler returns and its guard is dropped.                      *)
(***************************************************************************)
TaskCreateRequests ==
    [name : {<<"n">>, << >>}, email : {<<"a", "@">>, <<"A", "@">>}]

TaskUpdateRequests ==
    [name : {None}, email : {None, Some(<<"b", "@">>)}]

\* The id that the concurrent get, update and delete requests name; creates
\* draw theirs from all of Uuids.
TaskIds == {1}

\* Variant: a write acquisition that only waits for readers.
can_write_shared(l) == l.readers = {}

\* storage.write().await completes when nobody holds the lock.
can_write(l) == l.writers = {} /\ l.readers = {}

\* storage.read().await completes when no writer holds the lock.
can_read(l) == l.writers = {}

\* The lock is granted in arrival order: only the longest-waiting task may
\* take it.
is_next(q, t) == q # << >> /\ Head(q) = t

\* Variant: the guard is leaked and the lock stays held after the return.
Release_leak(t) == lock

Release(t) == [writers |-> lock.writers \ {t}, readers |-> lock.readers \ {t}]

Return(t) ==
    /\ pc' = [pc EXCEPT ![t] = "idle"]
    /\ req' = [req EXCEPT ![t] = NoReq]
    /\ lock' = Release(t)
    /\ rival' = [rival EXCEPT ![t] = 0]
    /\ UNCHANGED queue

Goto(t, label) ==
    /\ pc' = [pc EXCEPT ![t] = label]
    /\ UNCHANGED <<req, lock, rival, queue>>

\* The tasks whose create request, carrying the same email as t's, is in
\* flight while t's create inserts.
ConcurrentTwins(t) ==
    {o \in Tasks \ {t} :
        /\ pc[o] # "idle"
        /\ req[o].op = "create"
        /\ CreateBody(req[o]).email = CreateBody(req[t]).email}

\* The handler reaches storage.write().await or storage.read().await: the
\* task joins the lock's first-in, first-out queue of waiters.
Await(t, request) ==
    /\ pc' = [pc EXCEPT ![t] = "wait"]
    /\ req' = [req EXCEPT ![t] = request]
    /\ queue' = Append(queue, t)

\* A handler is called; create_user validates its payload before it awaits
\* the lock (handlers.rs 94-106) and may return at once.
Start(t) ==
    /\ pc[t] = "idle"
    /\ \/ \E payload \in TaskCreateRequests :
            IF create_user_validate(users, payload).kind # "Ok"
            THEN UNCHANGED <<pc, req, queue>>
            ELSE Await(t, Request("create", 0, CreateJson(payload)))
       \/ \E id \in TaskIds, payload \in TaskUpdateRequests :
            Await(t, Request("update", id, payload))
       \/ \E id \in TaskIds, op \in {"delete", "get"} :
            Await(t, Request(op, id, NoReq.payload))
       \/ Await(t, Request("list", 0, NoReq.payload))
    /\ UNCHANGED <<users, clock, lock, rival, health>>

AcquireWrite(t) ==
    /\ pc[t] = "wait"
    /\ req[t].op \in {"create", "update", "delete"}
    /\ is_next(queue, t)
    /\ can_write(lock)
    /\ lock' = [lock EXCEPT !.writers = @ \cup {t}]
    /\ pc' = [pc EXCEPT ![t] = "locked"]
    /\ queue' = Tail(queue)
    /\ UNCHANGED <<users, clock, req, rival, health>>

AcquireRead(t) ==
    /\ pc[t] = "wait"
    /\ req[t].op \in {"get", "list"}
    /\ is_next(queue, t)
    /\ can_read(lock)
    /\ lock' = [lock EXCEPT !.readers = @ \cup {t}]
    /\ pc' = [pc EXCEPT ![t] = "locked"]
    /\ queue' = Tail(queue)
    /\ UNCHANGED <<users, clock, req, rival, health>>

\* handlers.rs 111-116
CreateCheck(t) ==
    /\ pc[t] = "locked"
    /\ req[t].op = "create"
    /\ IF Storage_email_exists(users, CreateBody(req[t]).email)
       THEN Return(t)
       ELSE Goto(t, "checked")
    /\ UNCHANGED <<users, clock, health>>

\* handlers.rs 118-135
CreateInsert(t) ==
    /\ pc[t] = "checked"
    /\ req[t].op = "create"
    /\ \E newid \in Uuids :
           LET out == create_user_insert(users, CreateBody(req[t]), newid, clock)
           IN  /\ users' = out.users
               /\ rival' = [o \in Tasks |->
                              IF o = t THEN 0
                              ELSE IF out.kind = "Created" /\ o \in ConcurrentTwins(t)
                              THEN newid
                              ELSE rival[o]]
    /\ pc' = [pc EXCEPT ![t] = "idle"]
    /\ req' = [req EXCEPT ![t] = NoReq]
    /\ lock' = Release(t)
    /\ UNCHANGED <<clock, queue, health>>

\* handlers.rs 160-162
UpdateExists(t) ==
    /\ pc[t] = "locked"
    /\ req[t].op = "update"
    /\ IF ~Storage_get(users, req[t].id).some
       THEN Return(t)
       ELSE Goto(t, "checked")
    /\ UNCHANGED <<users, clock, health>>

\* handlers.rs 164-207
UpdateApply(t) ==
    /\ pc[t] = "checked"
    /\ req[t].op = "update"
    /\ \E found \in FindResults(users, req[t].payload) :
           users' = update_user_body(users, req[t].id, req[t].payload, found,
                                     clock).users
    /\ Return(t)
    /\ UNCHANGED <<clock, health>>

\* handlers.rs 226-230
DeleteRemove(t) ==
    /\ pc[t] = "locked"
    /\ req[t].op = "delete"
    /\ users' = delete_user(users, req[t].id).users
    /\ Return(t)
    /\ UNCHANGED <<clock, health>>

\* handlers.rs 69-73
GetRead(t) ==
    /\ pc[t] = "locked"
    /\ req[t].op = "get"
    /\ users' = get_user(users, req[t].id).users
    /\ Return(t)
    /\ UNCHANGED <<clock, health>>

\* handlers.rs 45-50
ListRead(t) ==
    /\ pc[t] = "locked"
    /\ req[t].op = "list"
    /\ users' = list_users(users).users
    /\ Return(t)
    /\ UNCHANGED <<clock, health>>

\* handlers.rs 26-32: the probe takes no state and awaits nothing; it is
\* served at once, whatever the other requests are doing.
HealthCheck ==
    /\ health' = health_check(clock)
    /\ UNCHANGED <<users, clock, pc, req, lock, rival, queue>>

NextTasks ==
    \E t \in Tasks :
        \/ Start(t)
        \/ AcquireWrite(t)
        \/ AcquireRead(t)
        \/ CreateCheck(t)
        \/ CreateInsert(t)
        \/ UpdateExists(t)
        \/ UpdateApply(t)
        \/ DeleteRemove(t)
        \/ GetRead(t)
        \/ ListRead(t)

SpecTasks == Init /\ [][NextTasks]_vars

\* Every step of a handler that has been called: all of the task's steps but
\* the arrival of a new request.
Step(t) ==
    \/ AcquireWrite(t)
    \/ AcquireRead(t)
    \/ CreateCheck(t)
    \/ CreateInsert(t)
    \/ UpdateExists(t)
    \/ UpdateApply(t)
    \/ DeleteRemove(t)
    \/ GetRead(t)
    \/ ListRead(t)

\* The runtime keeps polling a task that can make progress, and the lock is
\* handed to the head of its queue as soon as it is free; requests need not
\* keep arriving.
Fairness == \A t \in Tasks : WF_vars(Step(t))

SpecTasksFair == SpecTasks /\ Fairness

\* The storage handlers together with the probe, which may be called in any
\* state.
NextProbe == HealthCheck \/ NextTasks

SpecProbe == Init /\ [][NextProbe]_vars

(***************************************************************************)
(* Vocabulary of the claims                                                *)
(***************************************************************************)
Normalized(email) == to_lowercase(trim(email))

\* The request passes create_user's field validation.
PassesValidation(payload) ==
    /\ ~is_empty(trim(payload.name))
    /\ ~is_empty(trim(payload.email))
    /\ contains(payload.email, "@")

\* A supplied email that passes update_user's shape checks.
WellFormed(email) == ~is_empty(trim(email)) /\ contains(email, "@")

OwnedByOther(st, id, email) ==
    \E j \in DOMAIN st : j # id /\ st[j].email = Normalized(email)

SameExcept(st1, st2, ids) ==
    /\ DOMAIN st1 \ ids = DOMAIN st2 \ ids
    /\ \A j \in DOMAIN st1 \ ids : st1[j] = st2[j]

\* Every outcome some handler call can produce in the current state.
CreateOutcomes ==
    {create_user(users, payload, newid, clock) :
        payload \in CreateUserRequest, newid \in Uuids}

UpdateOutcomesFor(id, payload) ==
    {update_user(users, id, payload, found, clock) :
        found \in FindResults(users, payload)}

UpdateOutcomes ==
    UNION {UpdateOutcomesFor(id, payload) :
            id \in Uuids, payload \in UpdateUserRequest}

ReadOutcomes ==
    {list_users(users)} \cup {get_user(users, id) : id \in Uuids}

DeleteOutcomes == {delete_user(users, id) : id \in Uuids}

AllOutcomes ==
    CreateOutcomes \cup UpdateOutcomes \cup ReadOutcomes \cup DeleteOutcomes

(***************************************************************************)
(* C1: no two stored records have the same normalized email.               *)
(***************************************************************************)
C1_EmailUniqueness ==
    \A i \in DOMAIN users, j \in DOMAIN users :
        i # j => Normalized(users[i].email) # Normalized(users[j].email)

(***************************************************************************)
(* C2: create_user returns Conflict whenever the request passes field      *)
(* validation and its normalized email is the email of a stored record.    *)
(***************************************************************************)
C2_CreateConflictOnNormalizedEmail ==
    \A payload \in CreateUserRequest, newid \in Uuids :
        ( /\ PassesValidation(payload)
          /\ \E i \in DOMAIN users : users[i].email = Normalized(payload.email) )
        => create_user(users, payload, newid, clock).kind = "Conflict"

(***************************************************************************)
(* C3: a handler call that returns an error of any kind leaves the storage *)
(* mapping exactly as it was, updated_at included.                         *)
(***************************************************************************)
C3_ErrorLeavesStorageUnchanged ==
    \A out \in AllOutcomes : out.kind \in ErrorKinds => out.users = users

C3_Witness ==
    /\ DOMAIN users # {}
    /\ clock > 0
    /\ \A kind \in ErrorKinds : \E out \in AllOutcomes : out.kind = kind
    /\ \E out \in UpdateOutcomes : out.kind = "BadRequest"

C5_CreateEffect ==
    \A payload \in CreateUserRequest, newid \in Uuids :
        LET out == create_user(users, payload, newid, clock)
        IN  out.kind = "Created" =>
                /\ out.user.id \notin DOMAIN users
                /\ DOMAIN out.users = DOMAIN users \cup {out.user.id}
                /\ \A j \in DOMAIN users : out.users[j] = users[j]
                /\ out.users[out.user.id] = out.user
                /\ out.user.name = trim(payload.name)
                /\ out.user.name \in {<<"n">>, <<"N">>}
                /\ out.user.email = to_lowercase(trim(payload.email))
                /\ out.user.email \in {<<"a", "@">>, <<"b", "@">>}
                /\ out.user.created_at = out.user.updated_at
                /\ get_user(out.users, out.user.id).kind = "Ok"
                /\ get_user(out.users, out.user.id).user = out.user

C5_Witness ==
    /\ \E i \in DOMAIN users :
            users[i].created_at = clock /\ users[i].updated_at = clock
    /\ \E i \in DOMAIN users : users[i].created_at < clock

(***************************************************************************)
(* C6: a successful update_user on id X changes only the supplied fields   *)
(* of record X (name stored trimmed, email stored trimmed and lowercased), *)
(* never its id or created_at, refreshes its updated_at even when no field *)
(* is supplied, and leaves every other record unchanged.                   *)
(***************************************************************************)
C6_UpdateEffect ==
    \A id \in Uuids, payload \in UpdateUserRequest :
        \A out \in UpdateOutcomesFor(id, payload) :
            out.kind = "Ok" =>
                /\ id \in DOMAIN users
                /\ DOMAIN out.users = DOMAIN users
                /\ \A j \in DOMAIN users \ {id} : out.users[j] = users[j]
                /\ out.users[id].id = id
                /\ out.users[id].created_at = users[id].created_at
                /\ out.users[id].updated_at = clock
                /\ out.users[id].name =
                        IF payload.name.some THEN trim(payload.name.val)
                        ELSE users[id].name
                /\ out.users[id].email =
                        IF payload.email.some
                        THEN to_lowercase(trim(payload.email.val))
                        ELSE users[id].email
                /\ out.users[id].name \in {<<"n">>, <<"N">>}
                /\ out.users[id].email \in {<<"a", "@">>, <<"b", "@">>}
                /\ out.user = out.users[id]

C6_Witness ==
    \E i \in DOMAIN users, j \in DOMAIN users :
        /\ i # j
        /\ users[i].updated_at > users[i].created_at
        /\ users[j].updated_at = users[j].created_at
        /\ update_user(users, i, [name |-> None, email |-> None], None,
                       clock).kind = "Ok"

(***************************************************************************)
(* C7: update_user on an existing id X with a well-formed email returns    *)
(* Conflict if the normalized email is the email of a record other than X, *)
(* and does not return Conflict otherwise.                                 *)
(***************************************************************************)
C7_UpdateConflictIffOwnedByOther ==
    \A id \in DOMAIN users, payload \in UpdateUserRequest :
        (payload.email.some /\ WellFormed(payload.email.val)) =>
            \A out \in UpdateOutcomesFor(id, payload) :
                out.kind = "Conflict"
                    <=> OwnedByOther(users, id, payload.email.val)

(***************************************************************************)
(* C8: update_user classifies a request by the first failing check, in the *)
(* order id absent (NotFound), email empty, email without '@' (BadRequest),*)
(* email owned by a different record (Conflict), name empty (BadRequest),  *)
(* and only then applies the update.                                       *)
(***************************************************************************)
C8_UpdateCheckOrder ==
    \A id \in Uuids, payload \in UpdateUserRequest :
        \A out \in UpdateOutcomesFor(id, payload) :
            IF id \notin DOMAIN users
            THEN out.kind = "NotFound"
            ELSE IF payload.email.some /\ is_empty(trim(payload.email.val))
            THEN out.kind = "BadRequest" /\ out.msg = "Email cannot be empty"
            ELSE IF payload.email.some /\ ~contains(payload.email.val, "@")
            THEN out.kind = "BadRequest" /\ out.msg = "Invalid email format"
            ELSE IF payload.email.some
                    /\ OwnedByOther(users, id, payload.email.val)
            THEN out.kind = "Conflict"
            ELSE IF payload.name.some /\ is_empty(trim(payload.name.val))
            THEN out.kind = "BadRequest" /\ out.msg = "Name cannot be empty"
            ELSE out.kind = "Ok"

(***************************************************************************)
(* C9: delete_user on a stored id X succeeds, removes exactly record X and *)
(* leaves the others unchanged; while X is absent, get_user, update_user   *)
(* and delete_user on X return NotFound, and X can only come back through  *)
(* the insertion of one new record by create_user.                         *)
(***************************************************************************)
DeleteFinalityNow ==
    \A id \in Uuids :
        LET out == delete_user(users, id)
        IN  /\ id \in DOMAIN users =>
                /\ out.kind = "NoContent"
                /\ id \notin DOMAIN out.users
                /\ SameExcept(users, out.users, {id})
                /\ get_user(out.users, id).kind = "NotFound"
                /\ delete_user(out.users, id).kind = "NotFound"
                /\ ~Storage_delete(out.users, id).ok
                /\ \A payload \in UpdateUserRequest :
                       update_user(out.users, id, payload, None, clock).kind
                           = "NotFound"
            /\ id \notin DOMAIN users =>
                /\ out.kind = "NotFound"
                /\ get_user(users, id).kind = "NotFound"
                /\ \A payload \in UpdateUserRequest :
                       \A upd \in UpdateOutcomesFor(id, payload) :
                           upd.kind = "NotFound"

AbsentUntilCreated ==
    \A id \in Uuids :
        (id \notin DOMAIN users /\ id \in DOMAIN users') =>
            /\ SameExcept(users, users', {id})
            /\ users'[id].created_at = users'[id].updated_at
            /\ users'[id].created_at = clock

C9_DeleteFinality == []DeleteFinalityNow /\ [][AbsentUntilCreated]_vars

C9_Witness ==
    \E id \in Uuids, j \in DOMAIN users :
        /\ id \notin DOMAIN users
        /\ users[j].updated_at > users[j].created_at
        /\ delete_user(users, j).kind = "NoContent"
        /\ delete_user(users, id).kind = "NotFound"

(***************************************************************************)
(* C10: under any interleaving of handler invocations update_user never    *)
(* returns Internal: a task that has passed update_user's existence check  *)
(* still holds the write lock, alone, and the record is still there, so    *)
(* Storage::update and the re-read succeed.                                *)
(***************************************************************************)
C10_UpdateNeverInternal ==
    \A t \in Tasks :
        (pc[t] = "checked" /\ req[t].op = "update") =>
            /\ lock.writers = {t}
            /\ \A found \in FindResults(users, req[t].payload) :
                   update_user_body(users, req[t].id, req[t].payload, found,
                                    clock).kind # "Internal"

C10_Witness ==
    \E t \in Tasks, o \in Tasks :
        /\ pc[t] = "checked" /\ req[t].op = "update"
        /\ pc[o] = "wait" /\ req[o].op = "delete" /\ req[o].id = req[t].id
        /\ Cardinality(DOMAIN users) = 2

(***************************************************************************)
(* C11: each mutating handler runs its check-then-write sequence inside    *)
(* one exclusive lock acquisition: while a task is between its check and   *)
(* its write nobody else holds the lock, the write has the effect of the   *)
(* whole handler run atomically on the storage it finds, and two create    *)
(* requests carrying the same email never both succeed (their records      *)
(* never coexist).                                                         *)
(***************************************************************************)
InCriticalSection(t) ==
    pc[t] \in {"locked", "checked"} /\ req[t].op \in {"create", "update", "delete"}

ExclusiveWhileMutating ==
    \A t \in Tasks :
        InCriticalSection(t) =>
            /\ lock.writers = {t}
            /\ lock.readers = {}
            /\ \A o \in Tasks \ {t} : pc[o] \in {"idle", "wait"}

WriteIsAtomicHandler ==
    \A t \in Tasks :
        /\ (InCriticalSection(t) /\ InCriticalSection(t)') => users' = users
        /\ (pc[t] = "checked" /\ req[t].op = "create" /\ pc'[t] = "idle") =>
              \E newid \in Uuids :
                  users' = create_user(users, CreateBody(req[t]), newid, clock).users
        /\ (pc[t] = "checked" /\ req[t].op = "update" /\ pc'[t] = "idle") =>
              \E found \in FindResults(users, req[t].payload) :
                  users' = update_user(users, req[t].id, req[t].payload, found,
                                       clock).users
        /\ (pc[t] = "locked" /\ req[t].op = "delete" /\ pc'[t] = "idle") =>
              users' = delete_user(users, req[t].id).users

\* A create does not succeed while the record that a concurrent create of the
\* same email inserted is still stored.
NoTwinCreates ==
    \A t \in Tasks :
        ( /\ pc[t] = "checked" /\ req[t].op = "create" /\ pc'[t] = "idle"
          /\ DOMAIN users' # DOMAIN users )
        => rival[t] \notin DOMAIN users

C11_LockDiscipline == []ExclusiveWhileMutating /\ [][WriteIsAtomicHandler]_vars

C11_SingleAcquisition == C11_LockDiscipline /\ [][NoTwinCreates]_vars

(***************************************************************************)
(* C12: every stored record has a non-empty name equal to its trimmed form *)
(* and a non-empty email that contains '@' and equals its trimmed,         *)
(* lowercased form, after create and after any update.                     *)
(***************************************************************************)
C12_RecordValidity ==
    \A i \in DOMAIN users :
        /\ ~is_empty(users[i].name)
        /\ users[i].name = trim(users[i].name)
        /\ Head(users[i].name) # " "
        /\ users[i].name[Len(users[i].name)] # " "
        /\ ~is_empty(users[i].email)
        /\ contains(users[i].email, "@")
        /\ users[i].email = to_lowercase(trim(users[i].email))
        /\ \A k \in 1..Len(users[i].email) :
               users[i].email[k] \notin {"A", "B", "N"}
        /\ Head(users[i].email) # " "
        /\ users[i].email[Len(users[i].email)] # " "

C12_Witness ==
    \E i \in DOMAIN users, j \in DOMAIN users :
        /\ users[i].name = <<"N">>
        /\ users[i].updated_at > users[i].created_at
        /\ users[i].email = <<"b", "@">>
        /\ users[j].email = <<"a", "@">>
        /\ users[j].updated_at = users[j].created_at

(***************************************************************************)
(* C13: get_user(X) returns NotFound exactly when X is not stored, and     *)
(* otherwise a copy equal to the stored record; it never changes storage,  *)
(* so a second get_user(X) returns an equal result.                        *)
(***************************************************************************)
C13_GetUser ==
    \A id \in Uuids :
        LET out == get_user(users, id)
        IN  /\ out.kind = "NotFound" <=> id \notin DOMAIN users
            /\ id \in DOMAIN users => out.kind = "Ok" /\ out.user = users[id]
            /\ out.users = users
            /\ get_user(out.users, id).kind = out.kind
            /\ get_user(out.users, id).user = out.user

C13_Witness ==
    \E id \in Uuids, other \in Uuids :
        /\ get_user(users, id).kind = "Ok"
        /\ get_user(users, id).user.updated_at > 0
        /\ get_user(users, other).kind = "NotFound"

(***************************************************************************)
(* C14: list_users always succeeds, never changes storage and returns      *)
(* exactly the stored records, with count the number of records; on empty  *)
(* storage it returns count 0 and no record.                               *)
(***************************************************************************)
C14_ListUsers ==
    LET out == list_users(users)
    IN  /\ out.kind = "Ok"
        /\ out.users = users
        /\ \A i \in DOMAIN users : users[i] \in out.list
        /\ \A u \in out.list : u.id \in DOMAIN users /\ users[u.id] = u
        /\ out.count = Cardinality(DOMAIN users)
        /\ out.count = Cardinality(out.list)
        /\ DOMAIN users = {} => out.count = 0 /\ out.list = {}

C14_Witness ==
    /\ list_users(users).count = 2
    /\ \E u \in list_users(users).list, v \in list_users(users).list :
           u.id # v.id /\ u.email = v.email

(***************************************************************************)
(* C15: every handler invocation eventually returns and has released the   *)
(* lock when it does; with the lock handed out fairly, no handler that     *)
(* waits for the lock waits forever.                                       *)
(***************************************************************************)
Holders == lock.writers \cup lock.readers

ReturnedHoldsNothing ==
    \A t \in Tasks : pc[t] \in {"idle", "wait"} => t \notin Holders

C15_Termination ==
    /\ []ReturnedHoldsNothing
    /\ \A t \in Tasks : (pc[t] # "idle") ~> (pc[t] = "idle" /\ t \notin Holders)

C15_Witness ==
    \E t \in Tasks, o \in Tasks :
        /\ pc[t] = "wait"
        /\ req[t].op \in {"create", "update", "delete"}
        /\ lock.readers = {o}
        /\ pc[o] = "locked"

(***************************************************************************)
(* C16: after every successful update_user the record's updated_at is      *)
(* strictly greater than it was before the call, and created_at is         *)
(* unchanged.                                                              *)
(***************************************************************************)
C16_UpdatedAtStrictlyGreater ==
    \A id \in DOMAIN users, payload \in UpdateUserRequest :
        \A out \in UpdateOutcomesFor(id, payload) :
            out.kind = "Ok" =>
                /\ out.users[id].updated_at > users[id].updated_at
                /\ out.users[id].created_at = users[id].created_at

\* C16 as the code has it: a successful update_user sets updated_at to the
\* clock reading taken during the call, which is never smaller than the value
\* before and is strictly greater exactly when the clock has advanced since
\* the record was last written; created_at is unchanged.
C16_UpdatedAtRefreshed ==
    \A id \in DOMAIN users, payload \in UpdateUserRequest :
        \A out \in UpdateOutcomesFor(id, payload) :
            out.kind = "Ok" =>
                /\ out.users[id].updated_at = clock
                /\ out.users[id].updated_at >= users[id].updated_at
                /\ out.users[id].updated_at > users[id].updated_at
                       <=> clock > users[id].updated_at
                /\ out.users[id].created_at = users[id].created_at

C16_Witness ==
    \E i \in DOMAIN users, j \in DOMAIN users, payload \in UpdateUserRequest :
        /\ users[i].updated_at < clock
        /\ users[j].updated_at = clock
        /\ users[j].created_at < clock
        /\ \E out \in UpdateOutcomesFor(i, payload) : out.kind = "Ok"
        /\ \E out \in UpdateOutcomesFor(j, payload) : out.kind = "Ok"

(***************************************************************************)
(* C17: in every reachable state every stored record has                   *)
(* updated_at >= created_at.                                               *)
(***************************************************************************)
C17_UpdatedNotBeforeCreated ==
    \A i \in DOMAIN users :
        /\ users[i].updated_at >= users[i].created_at
        /\ users[i].updated_at <= clock

C17_Witness ==
    \E i \in DOMAIN users, j \in DOMAIN users :
        /\ users[i].created_at > 0
        /\ users[i].updated_at = users[i].created_at
        /\ users[j].updated_at > users[j].created_at

(***************************************************************************)
(* C18: every handler call has exactly one outcome, a success or one error *)
(* of one of the four kinds; the kind gives the response status            *)
(* (NotFound 404, BadRequest 400, Internal 500, Conflict 409) and the      *)
(* status written in the error body is the response status.                *)
(***************************************************************************)
C18_OneOutcomeOneStatus ==
    \A out \in AllOutcomes :
        /\ out.kind \in SuccessKinds \cup ErrorKinds
        /\ out.kind \in SuccessKinds => out.msg = ""
        /\ out.kind \in ErrorKinds =>
              LET response == into_response(out)
              IN  /\ out.user = NoUser /\ out.list = {}
                  /\ out.kind = "NotFound" => response.status = 404
                  /\ out.kind = "BadRequest" => response.status = 400
                  /\ out.kind = "Internal" => response.status = 500
                  /\ out.kind = "Conflict" => response.status = 409
                  /\ response.body.error.status = response.status
                  /\ response.body.error.message = out.msg

C18_Witness ==
    /\ \A status \in StatusCodes :
           \E out \in AllOutcomes :
               out.kind \in ErrorKinds /\ status_code(out) = status
    /\ \A kind \in SuccessKinds : \E out \in AllOutcomes : out.kind = kind

(***************************************************************************)
(* C19: health_check answers "healthy" / "rust-api" in every state: it     *)
(* takes no lock, so it completes while a writer holds the lock or writers *)
(* are queued; it never fails and never changes storage.                   *)
(***************************************************************************)
HealthAnswers ==
    /\ ENABLED HealthCheck
    /\ health_check(clock).status = "healthy"
    /\ health_check(clock).service = "rust-api"
    /\ health # NoHealth => health.status = "healthy" /\ health.service = "rust-api"

HealthTouchesNothing ==
    health' # health =>
        /\ users' = users
        /\ lock' = lock
        /\ queue' = queue
        /\ pc' = pc

C19_HealthCheck == []HealthAnswers /\ [][HealthTouchesNothing]_vars

C19_Witness ==
    /\ health # NoHealth
    /\ lock.writers # {}
    /\ queue # << >>
    /\ req[Head(queue)].op \in {"create", "update", "delete"}

(***************************************************************************)
(* C20: Storage::create with a record whose id is present returns false    *)
(* and leaves the mapping unchanged; with an absent id it inserts and      *)
(* returns true.  create_user returns Internal exactly when the generated  *)
(* id collides with a stored id, storage unchanged.  No two stored records *)
(* share an id.                                                            *)
(***************************************************************************)
Candidates ==
    {User(id, <<"n">>, email, clock, clock) :
        id \in Uuids, email \in {<<"a", "@">>, <<"b", "@">>}}

ReachesInsertion(payload) ==
    PassesValidation(payload) /\ ~Storage_email_exists(users, payload.email)

C20_NoOverwrite ==
    /\ \A user \in Candidates :
           LET res == Storage_create(users, user)
           IN  IF user.id \in DOMAIN users
               THEN ~res.ok /\ res.users = users
               ELSE /\ res.ok
                    /\ DOMAIN res.users = DOMAIN users \cup {user.id}
                    /\ res.users[user.id] = user
                    /\ \A i \in DOMAIN users : res.users[i] = users[i]
    /\ \A payload \in CreateUserRequest, newid \in Uuids :
           LET out == create_user(users, payload, newid, clock)
           IN  /\ out.kind = "Internal" <=>
                      ReachesInsertion(payload) /\ newid \in DOMAIN users
               /\ out.kind = "Internal" => out.users = users
    /\ \A i \in DOMAIN users : users[i].id = i
    /\ \A i \in DOMAIN users, j \in DOMAIN users :
           i # j => users[i].id # users[j].id

C20_Witness ==
    \E i \in DOMAIN users, free \in Uuids \ DOMAIN users :
        /\ users[i].email = <<"a", "@">>
        /\ \E payload \in CreateUserRequest :
               /\ create_user(users, payload, i, clock).kind = "Internal"
               /\ create_user(users, payload, free, clock).kind = "Created"
        /\ \E user \in Candidates :
               user.id = i /\ user.email # users[i].email
                           /\ ~Storage_create(users, user).ok

(***************************************************************************)
(* C21: update_user and delete_user preserve email uniqueness: if no two   *)
(* stored records share an email before the call, whatever its payload and *)
(* whether it succeeds or is rejected, none do after it.                   *)
(***************************************************************************)
UniqueEmails(st) ==
    \A i \in DOMAIN st, j \in DOMAIN st : i # j => st[i].email # st[j].email

C21_UpdateDeletePreserveUniqueness ==
    UniqueEmails(users) =>
        /\ \A out \in UpdateOutcomes : UniqueEmails(out.users)
        /\ \A out \in DeleteOutcomes : UniqueEmails(out.users)

C21_Witness ==
    /\ UniqueEmails(users)
    /\ \E i \in DOMAIN users, j \in DOMAIN users :
           /\ i # j
           /\ \E out \in UpdateOutcomesFor(i, [name |-> None,
                                               email |-> Some(users[j].email)]) :
                  out.kind = "Conflict"
           /\ \E payload \in UpdateUserRequest :
                  /\ payload.email.some
                  /\ payload.email.val # users[i].email
                  /\ \E out \in UpdateOutcomesFor(i, payload) : out.kind = "Ok"
           /\ delete_user(users, j).kind = "NoContent"

====
